---- MODULE Spec2Model ----
(***************************************************************************)
(* The blog of the portfolio site: the listing page (app/blog/page.tsx)    *)
(* and the detail page (app/blog/[slug]/page.tsx) over a read-only content *)
(* directory public/content/blog.                                          *)
(*                                                                         *)
(* A directory entry name is the sequence of its dot-separated segments:   *)
(* "a.b.mdx" is <<"a", "b", "mdx">>, the directory "a" is <<"a">>.  A slug *)
(* is a sequence of segments too: "a.b" is <<"a", "b">>.                   *)
(***************************************************************************)
EXTENDS Integers, Sequences, FiniteSets, TLC

\* ------------------------------------------------------------------ bounds

\* publishedAt ranges over the days 1..MaxDate.
MaxDate == 2

\* A body has at most MaxHeadings headings.
MaxHeadings == 3

\* A post has at most MaxTags tags.
MaxTags == 4

\* ----------------------------------------------------------- content files

\* No file: what lookupPublicFile gives for a slug nothing backs.
NoFile == <<>>

\* The entry names a content directory is drawn from, in byte order: a post
\* stored as a directory holding index.mdx, a single-file post whose name has
\* two dots, and two single-file posts.  Their identifiers (the names without
\* extension: a, a.b, b, c) are distinct, as the repository requires.
NameOrder ==
    << <<"a">>, <<"a", "b", "mdx">>, <<"b", "mdx">>, <<"c", "mdx">> >>

NamePool == { NameOrder[r] : r \in 1..Len(NameOrder) }

NameRank(name) == CHOOSE r \in 1..Len(NameOrder) : NameOrder[r] = name

\* An entry without an extension is a directory holding index.mdx.
IsDir(name) == Len(name) = 1

\* Front matter as the parser hands it over: a mapping whose domain is the set
\* of keys the block holds.  A date is a day number; 0 stands for a value that
\* does not coerce to a date.  tags is a bare string or a list.
BareTag(v) == [bare |-> TRUE, str |-> v, items |-> <<>>]
TagList(s) == [bare |-> FALSE, str |-> "", items |-> s]

FrontMatter(p) ==
    ("title" :> "T") @@ ("summary" :> "S") @@ ("publishedAt" :> p)
        @@ ("tags" :> BareTag("x"))

WithDraft(fm, d) == fm @@ ("draft" :> d)

NoSummary(fm) == [k \in DOMAIN fm \ {"summary"} |-> fm[k]]

\* The body of a content file: whether it compiles as MDX, the component
\* tags it embeds (name and attributes), the texts of its headings and its
\* fenced code blocks (language and title of the fence).
Body(bodyOk, uses, headings, code) ==
    [bodyOk |-> bodyOk, uses |-> uses, headings |-> headings, code |-> code]

PlainBody(bodyOk) == Body(bodyOk, <<>>, <<>>, <<>>)

\* A content file: whether its front matter block parses, the record the
\* block holds, and its body.
FileOf(fmOk, fm, body) ==
    [fmOk |-> fmOk, fm |-> fm, bodyOk |-> body.bodyOk, uses |-> body.uses,
     headings |-> body.headings, code |-> body.code]

File(fmOk, fm, bodyOk) == FileOf(fmOk, fm, PlainBody(bodyOk))

ValidFiles ==
    { File(TRUE, FrontMatter(p), TRUE) : p \in 1..MaxDate }
    \cup { File(TRUE, WithDraft(FrontMatter(p), d), TRUE) :
               p \in 1..MaxDate, d \in BOOLEAN }

ContentPool ==
    ValidFiles
    \cup { File(FALSE, FrontMatter(1), TRUE),
           File(TRUE, NoSummary(FrontMatter(1)), TRUE) }

\* The contents an entry named `name` is drawn from.  The listing never reads
\* the file of a two-dot name under its own identifier, so one content is
\* enough for it.
ContentsOf(name) ==
    IF Len(name) = 3 THEN { File(TRUE, WithDraft(FrontMatter(MaxDate), TRUE), TRUE) }
    ELSE ContentPool

VARIABLES
    enumerable, \* whether readdirSync can enumerate the content directory
    dir,        \* the content directory: a sequence of [name, file], in the
                \* order readdirSync enumerates it
    dev,        \* IS_DEVELOPMENT
    pc,         \* where the one request of this behaviour stands
    completed,  \* listing: the reads that have settled, in completion order
    listing,    \* listing: the posts the page renders (parsed)
    err,        \* the error the request failed with, "" if none
    dslug,      \* detail: params.slug
    steps,      \* detail: the steps executed after the lookup
    out,        \* detail: what the page returned
    tree,       \* detail: the syntax tree serialize compiled the body to
    validated,  \* the outcome of the last blogMatterSchema.parse applied to
                \* a record on its own
    prev,       \* the outcome of the listing request before this one
    items,      \* listing: the list items the page returned
    meta,       \* detail: what generateMetadata returned
    params,     \* what generateStaticParams returned
    hits        \* the page views counted for the requested page

vars == <<enumerable, dir, dev, pc, completed, listing, err, dslug, steps, out,
          tree, validated, prev, items, meta, params, hits>>

\* ------------------------------------------------------- the file system

\* readdirSync(getPublicPath("content/blog")): the entry names, in order.
Files == [i \in 1..Len(dir) |-> dir[i].name]

\* file.split(".")[0]: the text before the first dot.
SplitFirst(name) == <<name[1]>>

\* path.parse(fileName).name: the name without its last extension.
PathParseName(name) ==
    IF Len(name) = 1 THEN name ELSE SubSeq(name, 1, Len(name) - 1)

\* The entries of the directory named `name`.
EntriesNamed(name) == { i \in 1..Len(dir) : dir[i].name = name }

\* lookupPublicFile(getPublicPath("content/blog/<slug>"), "mdx"): the file
\* <slug>.mdx, else the entry file index.mdx of the directory <slug>, else
\* nothing.  The result names the directory entry that holds the file.
lookupPublicFile(slug) ==
    IF EntriesNamed(slug \o <<"mdx">>) # {} THEN slug \o <<"mdx">>
    ELSE IF EntriesNamed(slug) # {} /\ IsDir(slug) THEN slug
    ELSE NoFile

\* The content of the file lookupPublicFile resolved.
FileAt(path) == dir[CHOOSE i \in EntriesNamed(path) : TRUE].file

\* readMdFile(path, {frontmatterOnly}): the promise rejects when the path is
\* "" (nothing was resolved) or the front matter block does not parse, and
\* otherwise resolves to the raw front matter.  With frontmatterOnly the
\* parser stops after the block; without it the body is decoded too, and a
\* body that does not compile rejects.
readMdFile(path, frontmatterOnly) ==
    IF path = NoFile THEN [ok |-> FALSE, error |-> "ENOENT", frontmatter |-> <<>>]
    ELSE IF ~FileAt(path).fmOk
        THEN [ok |-> FALSE, error |-> "MalformedDocument", frontmatter |-> <<>>]
    ELSE IF ~frontmatterOnly /\ ~FileAt(path).bodyOk
        THEN [ok |-> FALSE, error |-> "MalformedDocument", frontmatter |-> <<>>]
    ELSE [ok |-> TRUE, error |-> "", frontmatter |-> FileAt(path).fm]

\* ------------------------------------------------------------ validation

RequiredKeys == {"title", "summary", "publishedAt", "tags"}

\* blogMatterSchema.safeParse(raw).success: every required key is there, the
\* title is not empty and the dates coerce.
\* (SchemaAcceptsBareTagsOnly: a schema whose tags is a string and nothing
\* else.)
SchemaAcceptsBareTagsOnly(raw) ==
    /\ RequiredKeys \subseteq DOMAIN raw
    /\ raw["title"] # ""
    /\ raw["publishedAt"] >= 1
    /\ raw["tags"].bare
    /\ "updatedAt" \in DOMAIN raw => raw["updatedAt"] >= 1
SchemaAccepts(raw) ==
    /\ RequiredKeys \subseteq DOMAIN raw
    /\ raw["title"] # ""
    /\ raw["publishedAt"] >= 1
    /\ "updatedAt" \in DOMAIN raw => raw["updatedAt"] >= 1

\* The coercion of tags that runs before the list constraint: a bare string
\* becomes the list of that one string, a list stays as it is.
\* (NormalizeTagsListOnly: no coercion, a bare string is read as a list and
\* gives none of its items.)
NormalizeTagsListOnly(t) == t.items
NormalizeTags(t) == IF t.bare THEN <<t.str>> ELSE t.items

\* blogMatterSchema.parse(raw) where it succeeds: tags is normalized, an
\* absent draft becomes false, an absent updatedAt is undefined (0).
SchemaValue(raw) ==
    [ title       |-> raw["title"],
      summary     |-> raw["summary"],
      publishedAt |-> raw["publishedAt"],
      tags        |-> NormalizeTags(raw["tags"]),
      updatedAt   |-> IF "updatedAt" \in DOMAIN raw THEN raw["updatedAt"] ELSE 0,
      draft       |-> IF "draft" \in DOMAIN raw THEN raw["draft"] ELSE FALSE ]

\* What parse gives where it throws.
NoMatter ==
    [ title |-> "", summary |-> "", publishedAt |-> 0, tags |-> <<>>,
      updatedAt |-> 0, draft |-> FALSE ]

\* blogMatterSchema.parse(raw): the validated record, or the ZodError thrown.
validate(raw) ==
    IF SchemaAccepts(raw)
    THEN [ok |-> TRUE, error |-> "", value |-> SchemaValue(raw)]
    ELSE [ok |-> FALSE, error |-> "ValidationError", value |-> NoMatter]

\* A validated record handed to parse again: the object with the keys parse
\* produced, tags a list, an undefined updatedAt left out.
AsRaw(v) ==
    LET given == ("title" :> v.title) @@ ("summary" :> v.summary)
                     @@ ("publishedAt" :> v.publishedAt)
                     @@ ("tags" :> TagList(v.tags)) @@ ("draft" :> v.draft)
    IN  IF v.updatedAt = 0 THEN given
        ELSE given @@ ("updatedAt" :> v.updatedAt)

\* ------------------------------------------------- the listing's pipeline

\* The slug the listing derives for entry i.
ListSlug(i) == SplitFirst(Files[i])

\* The file the listing reads for entry i ("" where nothing is resolved).
\* (ListPathFileOnly: a listing that knows only the single-file form.)
ListPathFileOnly(i) ==
    IF EntriesNamed(ListSlug(i) \o <<"mdx">>) # {}
    THEN ListSlug(i) \o <<"mdx">> ELSE NoFile
ListPath(i) == lookupPublicFile(ListSlug(i))

\* What the read started for entry i settles to.
\* (ReadResultWholeFile: the read without { frontmatterOnly: true }.)
ReadResultWholeFile(i) == readMdFile(ListPath(i), FALSE)
ReadResult(i) == readMdFile(ListPath(i), TRUE)

\* await Promise.all(files.map(...)): the values in the order of the input
\* array, whatever the order `order` in which the promises settled.
\* (PromiseAllByCompletion: the values collected as the promises settle.)
PromiseAllByCompletion(order) ==
    [k \in 1..Len(order) |-> ReadResult(order[k])]
PromiseAll(order) == [i \in 1..Len(order) |-> ReadResult(i)]

\* .map((md, i) => ({...blogMatterSchema.parse(md.frontmatter),
\*                   slug: files[i].split(".")[0]}))
\* entry is bookkeeping of the model: the index of the directory entry the
\* post was built for.
\* (PostSlugWithoutExtension: the slug taken as path.parse(...).name, the
\* read staying as it is.)
PostSlugWithoutExtension(md, i) ==
    [ title       |-> SchemaValue(md.frontmatter).title,
      summary     |-> SchemaValue(md.frontmatter).summary,
      publishedAt |-> SchemaValue(md.frontmatter).publishedAt,
      tags        |-> SchemaValue(md.frontmatter).tags,
      updatedAt   |-> SchemaValue(md.frontmatter).updatedAt,
      draft       |-> SchemaValue(md.frontmatter).draft,
      slug        |-> PathParseName(Files[i]),
      entry       |-> i ]
Post(md, i) ==
    [ title       |-> SchemaValue(md.frontmatter).title,
      summary     |-> SchemaValue(md.frontmatter).summary,
      publishedAt |-> SchemaValue(md.frontmatter).publishedAt,
      tags        |-> SchemaValue(md.frontmatter).tags,
      updatedAt   |-> SchemaValue(md.frontmatter).updatedAt,
      draft       |-> SchemaValue(md.frontmatter).draft,
      slug        |-> ListSlug(i),
      entry       |-> i ]

\* .filter((post) => post.draft !== true || IS_DEVELOPMENT)
\* (DraftFilterNoFlag drops the flag; DraftFilterAnd has && for ||.)
DraftFilterNoFlag(post) == post.draft # TRUE
DraftFilterAnd(post) == post.draft # TRUE /\ dev
DraftFilter(post) == post.draft # TRUE \/ dev

\* (a, b) => (a.publishedAt < b.publishedAt ? 1 : -1)
\* (CompareAscending: the comparison turned round.)
CompareAscending(a, b) == IF a.publishedAt > b.publishedAt THEN 1 ELSE -1
Compare(a, b) == IF a.publishedAt < b.publishedAt THEN 1 ELSE -1

\* Array.prototype.sort as V8 runs it on fewer than 64 elements: the leading
\* run is found (and reversed when the comparator calls it descending), and
\* the rest is added by binary insertion.  Indices are 0-based as in V8.
Reverse(s) == [i \in 1..Len(s) |-> s[Len(s) + 1 - i]]

RECURSIVE RunLength(_, _, _)
RunLength(s, isDescending, idx) ==
    IF idx >= Len(s) THEN idx
    ELSE LET order == Compare(s[idx + 1], s[idx])
         IN  IF (isDescending /\ order >= 0) \/ (~isDescending /\ order < 0)
             THEN idx
             ELSE RunLength(s, isDescending, idx + 1)

CountAndMakeRun(s) ==
    LET isDescending == Compare(s[2], s[1]) < 0
        runLength == RunLength(s, isDescending, 2)
    IN  [ runLength |-> runLength,
          array |-> IF isDescending
                    THEN Reverse(SubSeq(s, 1, runLength))
                             \o SubSeq(s, runLength + 1, Len(s))
                    ELSE s ]

RECURSIVE InsertAt(_, _, _, _)
InsertAt(s, pivot, left, right) ==
    IF left >= right THEN left
    ELSE LET mid == left + ((right - left) \div 2)
         IN  IF Compare(pivot, s[mid + 1]) < 0
             THEN InsertAt(s, pivot, left, mid)
             ELSE InsertAt(s, pivot, mid + 1, right)

RECURSIVE BinaryInsertionSort(_, _)
BinaryInsertionSort(s, start) ==
    IF start >= Len(s) THEN s
    ELSE LET pivot == s[start + 1]
             left == InsertAt(s, pivot, 0, start)
         IN  BinaryInsertionSort(
                 SubSeq(s, 1, left) \o <<pivot>> \o SubSeq(s, left + 1, start)
                     \o SubSeq(s, start + 2, Len(s)),
                 start + 1)

\* (SortFirstRunOnly: the leading run kept, the rest never inserted.)
SortFirstRunOnly(s) ==
    IF Len(s) < 2 THEN s
    ELSE SubSeq(CountAndMakeRun(s).array, 1, CountAndMakeRun(s).runLength)
Sort(s) ==
    IF Len(s) < 2 THEN s
    ELSE BinaryInsertionSort(CountAndMakeRun(s).array,
                             CountAndMakeRun(s).runLength)

\* The synchronous tail of Page once every read has resolved: map (which
\* throws at the first front matter the schema rejects), filter, sort.
\* (ListOutcomeSkipInvalid: a map that leaves out a rejected record instead
\* of throwing.)
Valid(mds) ==
    { i \in 1..Len(mds) : SchemaAccepts(mds[i].frontmatter) }
RECURSIVE ValidPosts(_, _)
ValidPosts(mds, i) ==
    IF i > Len(mds) THEN <<>>
    ELSE (IF i \in Valid(mds) THEN <<Post(mds[i], i)>> ELSE <<>>)
             \o ValidPosts(mds, i + 1)
ListOutcomeSkipInvalid(mds) ==
    [ok |-> TRUE, error |-> "",
     parsed |-> Sort(SelectSeq(ValidPosts(mds, 1), DraftFilter))]
ListOutcome(mds) ==
    IF \E i \in 1..Len(mds) : ~SchemaAccepts(mds[i].frontmatter)
    THEN [ok |-> FALSE, error |-> "ValidationError", parsed |-> <<>>]
    ELSE [ ok |-> TRUE, error |-> "",
           parsed |-> Sort(SelectSeq([i \in 1..Len(mds) |-> Post(mds[i], i)],
                                     DraftFilter)) ]

\* post.tags.slice(0, 3).map((tag, i) => ...): at most three badges, the
\* third reading +<length - 2> where there are more than three tags (i == 2
\* is the third badge).
\* (BadgesCountFromThree: the hidden tags counted from the fourth.)
BadgesCountFromThree(tags) ==
    [i \in 1..(IF Len(tags) < 3 THEN Len(tags) ELSE 3) |->
        IF Len(tags) > 3 /\ i = 3
        THEN [plus |-> TRUE, name |-> "", k |-> Len(tags) - 3]
        ELSE [plus |-> FALSE, name |-> tags[i], k |-> 0]]
Badges(tags) ==
    [i \in 1..(IF Len(tags) < 3 THEN Len(tags) ELSE 3) |->
        IF Len(tags) > 3 /\ i = 3
        THEN [plus |-> TRUE, name |-> "", k |-> Len(tags) - 2]
        ELSE [plus |-> FALSE, name |-> tags[i], k |-> 0]]

\* The <li> of a post: its key, the link /blog/<slug>, the title with the
\* draft mark, the date, the badges and the summary.
ListItem(post) ==
    [ key |-> post.slug, href |-> <<"blog">> \o post.slug,
      title |-> post.title, draftMark |-> post.draft,
      publishedAt |-> post.publishedAt, badges |-> Badges(post.tags),
      summary |-> post.summary ]

\* ----------------------------------------------------- the detail's page

\* The slugs a detail request is made for: the identifiers of the pool's
\* entries, each backed or not as the directory has it.
SlugPool == { <<"a">>, <<"a", "b">>, <<"b">>, <<"c">> }

NoPage == [kind |-> "none", incrementor |-> FALSE, title |-> "",
           publishedAt |-> 0, updatedAt |-> 0, tags |-> <<>>,
           draftNotice |-> FALSE, body |-> FALSE, components |-> <<>>]

\* <p ...>Post not Found</p>
\* (NotFoundPageCounted: the paragraph inside <PageViewIncrementor>.)
NotFoundPageCounted ==
    [kind |-> "notfound", incrementor |-> TRUE, title |-> "",
     publishedAt |-> 0, updatedAt |-> 0, tags |-> <<>>,
     draftNotice |-> FALSE, body |-> FALSE, components |-> <<>>]
NotFoundPage == [kind |-> "notfound", incrementor |-> FALSE, title |-> "",
                 publishedAt |-> 0, updatedAt |-> 0, tags |-> <<>>,
                 draftNotice |-> FALSE, body |-> FALSE, components |-> <<>>]

\* The article: PageViewIncrementor around the title, the dates (updatedAt
\* where there is one), the tags, the draft notice (matter.draft && ...) and
\* the body ((!matter.draft || IS_DEVELOPMENT) && <MDXRemote {...post} />),
\* whose embedded components are `components`.
\* (ArticleBodyAlways: the body shown whatever the draft flag.)
ArticleBodyAlways(matter, components) ==
    [ kind |-> "article", incrementor |-> TRUE, title |-> matter.title,
      publishedAt |-> matter.publishedAt, updatedAt |-> matter.updatedAt,
      tags |-> matter.tags,
      draftNotice |-> matter.draft,
      body |-> TRUE,
      components |-> components ]
Article(matter, components) ==
    [ kind |-> "article", incrementor |-> TRUE, title |-> matter.title,
      publishedAt |-> matter.publishedAt, updatedAt |-> matter.updatedAt,
      tags |-> matter.tags,
      draftNotice |-> matter.draft,
      body |-> ~matter.draft \/ dev,
      components |-> IF ~matter.draft \/ dev THEN components ELSE <<>> ]

\* if (!file) return <p>Post not Found</p>
\* (DetailMissingNever: the early return left out.)
DetailMissingNever(file) == FALSE
DetailMissing(file) == file = NoFile

\* ------------------------------------------------------------ serialize

\* remarkPlugins: [[codesandbox, { mode: "button" }]]
remarkPlugins == <<"codesandbox">>

\* rehypePlugins: [rehypeCodeTitles, rehypePrism, rehypeSlug]
\* (rehypePluginsAnchorsFirst: the anchors assigned before the code blocks
\* are touched.)
rehypePluginsAnchorsFirst == <<"rehypeSlug", "rehypeCodeTitles", "rehypePrism">>
rehypePlugins == <<"rehypeCodeTitles", "rehypePrism", "rehypeSlug">>

\* The tree the body parses to, before any plugin: a heading has no id, a
\* code block carries the class language-<lang>[:<title>] of its fence.
ParseBody(file) ==
    [ applied  |-> <<>>,
      failed   |-> FALSE,
      headings |-> [k \in 1..Len(file.headings) |->
                       [text |-> file.headings[k], hasId |-> FALSE, id |-> <<>>]],
      code     |-> [k \in 1..Len(file.code) |->
                       [lang |-> file.code[k].lang, suffix |-> file.code[k].title,
                        title |-> "", highlighted |-> FALSE]] ]

\* rehype-code-titles: the title after the colon of the class becomes a title
\* element before the block, and the class keeps the language alone.
CodeTitles(code) ==
    [k \in 1..Len(code) |->
        IF code[k].suffix = "" THEN code[k]
        ELSE [code[k] EXCEPT !.title = code[k].suffix, !.suffix = ""]]

\* rehype-prism-plus: every block of a language it knows is highlighted; a
\* class that names no language it knows (a title still attached) throws.
PrismFails(code) == \E k \in 1..Len(code) : code[k].suffix # ""
Prism(code) == [k \in 1..Len(code) |-> [code[k] EXCEPT !.highlighted = TRUE]]

\* A heading text and an id are sequences of characters; the letters of a
\* word are one character here ("Foo", "foo"), as are the digit, the space,
\* the hyphen and the exclamation mark.
Lower(c) == IF c = "Foo" THEN "foo" ELSE c

\* github-slugger's slug(value): lower case, the characters of its regex
\* (punctuation) removed, every space replaced by a hyphen.
RECURSIVE SlugOf(_)
SlugOf(text) ==
    IF text = <<>> THEN <<>>
    ELSE (IF Head(text) = "!" THEN <<>>
          ELSE IF Head(text) = " " THEN <<"-">>
          ELSE <<Lower(Head(text))>>) \o SlugOf(Tail(text))

\* The decimal digits a counter is written with.
Digits == <<"1", "2", "3", "4", "5", "6", "7", "8", "9">>

\* BananaSlug.slug: while the result has been given out, the counter of the
\* original slug is incremented and appended; the result is then recorded.
\* occ is `occurrences`, the counters by slug.
\* (UniqueSlugCountOnly: the counter appended once, without looking whether
\* the suffixed result has been given out.)
UniqueSlugCountOnly(original, occ, result) ==
    IF result \in DOMAIN occ
    THEN [ occ |-> [occ EXCEPT ![original] = occ[original] + 1],
           id  |-> original \o <<"-", Digits[occ[original] + 1]>> ]
    ELSE [ occ |-> occ @@ (result :> 0), id |-> result ]
RECURSIVE UniqueSlug(_, _, _)
UniqueSlug(original, occ, result) ==
    IF result \in DOMAIN occ
    THEN UniqueSlug(original, [occ EXCEPT ![original] = occ[original] + 1],
                    original \o <<"-", Digits[occ[original] + 1]>>)
    ELSE [ occ |-> occ @@ (result :> 0), id |-> result ]

\* rehype-slug: slugs.reset(), then every heading without an id, in document
\* order, gets properties.id = slugs.slug(toString(node)).
RECURSIVE SlugHeadings(_, _, _)
SlugHeadings(headings, k, occ) ==
    IF k > Len(headings) THEN headings
    ELSE IF headings[k].hasId THEN SlugHeadings(headings, k + 1, occ)
    ELSE LET u == UniqueSlug(SlugOf(headings[k].text), occ,
                             SlugOf(headings[k].text))
         IN  SlugHeadings([headings EXCEPT ![k].hasId = TRUE, ![k].id = u.id],
                          k + 1, u.occ)

\* One plugin run on the tree; a plugin that throws ends the compilation.
RunPlugin(t, plugin) ==
    IF t.failed THEN t
    ELSE IF plugin = "rehypeCodeTitles"
        THEN [t EXCEPT !.applied = Append(@, plugin), !.code = CodeTitles(@)]
    ELSE IF plugin = "rehypePrism"
        THEN IF PrismFails(t.code)
             THEN [t EXCEPT !.applied = Append(@, plugin), !.failed = TRUE]
             ELSE [t EXCEPT !.applied = Append(@, plugin), !.code = Prism(@)]
    ELSE IF plugin = "rehypeSlug"
        THEN [t EXCEPT !.applied = Append(@, plugin),
                       !.headings = SlugHeadings(@, 1, <<>>)]
    ELSE [t EXCEPT !.applied = Append(@, plugin)]

RECURSIVE RunPlugins(_, _)
RunPlugins(t, plugins) ==
    IF plugins = <<>> THEN t
    ELSE RunPlugins(RunPlugin(t, Head(plugins)), Tail(plugins))

\* serialize(fileContents, {mdxOptions}): the body is parsed, the remark
\* plugins run in the order of their array, then the rehype plugins in the
\* order of theirs.
Serialize(file) == RunPlugins(ParseBody(file), remarkPlugins \o rehypePlugins)

\* The tree of a request that compiled nothing.
NoTree == [applied |-> <<>>, failed |-> FALSE, headings |-> <<>>, code |-> <<>>]

\* readFileSync(file, "utf8") followed by serialize(fileContents, ...): throws
\* when there is no such file, the front matter does not parse, the body
\* does not compile or a plugin throws.
SerializeError(file) ==
    IF file = NoFile THEN "ENOENT"
    ELSE IF ~FileAt(file).fmOk THEN "MalformedDocument"
    ELSE IF ~FileAt(file).bodyOk THEN "RenderError"
    ELSE IF Serialize(FileAt(file)).failed THEN "RenderError"
    ELSE ""

\* The components <MDXRemote> substitutes for the tags of a body.
Substitutions == {"Image"}

\* <MDXRemote {...post} />: every embedded tag is rendered by its
\* substitution with the attributes it was written with; a tag without a
\* substitution throws.
\* (MdxRenderSkipUnknown: a tag without a substitution is left out.)
Substituted(u) == u.tag \in Substitutions
MdxRenderSkipUnknown(uses) ==
    [ok |-> TRUE,
     components |-> [k \in 1..Len(SelectSeq(uses, Substituted)) |->
                        [tag |-> SelectSeq(uses, Substituted)[k].tag,
                         props |-> SelectSeq(uses, Substituted)[k].attrs]]]
MdxRender(uses) ==
    IF \E k \in 1..Len(uses) : uses[k].tag \notin Substitutions
    THEN [ok |-> FALSE, components |-> <<>>]
    ELSE [ok |-> TRUE,
          components |-> [k \in 1..Len(uses) |->
                             [tag |-> uses[k].tag, props |-> uses[k].attrs]]]

\* const matter = blogMatterSchema.parse(post.frontmatter) and what follows
\* it: the steps run and the page returned, or the error thrown.  The body
\* is rendered only where the article shows it.
\* (RenderOutcomeUnchecked: the article built from the raw front matter.
\* RenderOutcomeNoThrow: a render that leaves out what it cannot render.)
RenderOutcomeNoThrow(file) ==
    IF ~validate(file.fm).ok
    THEN [ok |-> FALSE, error |-> validate(file.fm).error,
          steps |-> <<"validate">>, page |-> NoPage]
    ELSE [ok |-> TRUE, error |-> "", steps |-> <<"validate", "render">>,
          page |-> Article(validate(file.fm).value,
                           MdxRenderSkipUnknown(file.uses).components)]
RenderOutcomeUnchecked(file) ==
    [ok |-> TRUE, error |-> "", steps |-> <<"validate", "render">>,
     page |-> Article([title |-> file.fm["title"],
                       publishedAt |-> file.fm["publishedAt"],
                       updatedAt |-> 0, tags |-> <<>>, draft |-> FALSE],
                      MdxRender(file.uses).components)]
RenderOutcome(file) ==
    IF ~validate(file.fm).ok
    THEN [ok |-> FALSE, error |-> validate(file.fm).error,
          steps |-> <<"validate">>, page |-> NoPage]
    ELSE IF (~validate(file.fm).value.draft \/ dev) /\ ~MdxRender(file.uses).ok
    THEN [ok |-> FALSE, error |-> "RenderError",
          steps |-> <<"validate", "render">>, page |-> NoPage]
    ELSE [ok |-> TRUE, error |-> "", steps |-> <<"validate", "render">>,
          page |-> Article(validate(file.fm).value,
                           MdxRender(file.uses).components)]

\* ------------------------------------------------------------------ Init

\* The enumerations of a directory that holds entries of the pool: readdirSync
\* gives the names in byte order.
NameSeqs ==
    { ns \in UNION { [1..n -> NamePool] : n \in 0..Cardinality(NamePool) } :
        \A i, j \in 1..Len(ns) : i < j => NameRank(ns[i]) < NameRank(ns[j]) }

Dirs ==
    UNION { { [i \in 1..Len(ns) |-> [name |-> ns[i], file |-> fs[i]]] :
                fs \in { f \in [1..Len(ns) -> ContentPool] :
                            \A i \in 1..Len(ns) : f[i] \in ContentsOf(ns[i]) } } :
            ns \in NameSeqs }

\* generateMetadata and generateStaticParams before they are called.
NoMeta == [done |-> FALSE, title |-> <<>>, description |-> ""]
NoParams == [done |-> FALSE, slugs |-> <<>>]

\* A request that has validated nothing on its own, and one no listing
\* request came before.
NoValidation == [n |-> 0, entry |-> 0, ok |-> FALSE, error |-> "", value |-> NoMatter]
NoBuild == [n |-> 0, pc |-> "", listing |-> <<>>]

\* A directory that cannot be enumerated is one that is not there.
Init ==
    /\ enumerable \in BOOLEAN
    /\ dir \in Dirs
    /\ ~enumerable => dir = <<>>
    /\ dev \in BOOLEAN
    /\ pc = "idle"
    /\ completed = <<>>
    /\ listing = <<>>
    /\ err = ""
    /\ dslug = <<>>
    /\ steps = <<>>
    /\ out = NoPage
    /\ tree = NoTree
    /\ validated = NoValidation
    /\ prev = NoBuild
    /\ items = <<>>
    /\ meta = NoMeta
    /\ params = NoParams
    /\ hits = 0

\* --------------------------------------------------------------- actions

\* readdirSync(getPublicPath("content/blog"), "utf8") throws when the
\* directory cannot be read.
\* (ReaddirNeverThrows: an enumeration that gives no names instead.)
ReaddirNeverThrows == FALSE
ReaddirThrows == ~enumerable

\* Page of app/blog/page.tsx up to its await: the directory is enumerated and
\* one read per entry is started.
ListStart ==
    /\ pc = "idle"
    /\ IF ReaddirThrows
       THEN pc' = "list_failed" /\ err' = "RepositoryUnavailable"
       ELSE pc' = "list_reading" /\ err' = err
    /\ UNCHANGED <<hits, meta, params, items, enumerable, validated, prev, tree, dir, dev, completed, listing,
                   dslug, steps, out>>

\* The read started for entry i settles.  The first rejection rejects
\* Promise.all, and with it Page; the other reads still run to their end.
ReadSettle(i) ==
    /\ pc \in {"list_reading", "list_failed"}
    /\ i \in 1..Len(dir)
    /\ \A k \in 1..Len(completed) : completed[k] # i
    /\ completed' = Append(completed, i)
    /\ IF pc = "list_reading" /\ ~ReadResult(i).ok
       THEN pc' = "list_failed" /\ err' = ReadResult(i).error
       ELSE UNCHANGED <<pc, err>>
    /\ UNCHANGED <<hits, meta, params, items, enumerable, validated, prev, tree, dir, dev, listing, dslug,
                   steps, out>>

\* Every read has resolved: Promise.all resolves and Page runs to its end.
ListFinish ==
    /\ pc = "list_reading"
    /\ Len(completed) = Len(dir)
    /\ LET o == ListOutcome(PromiseAll(completed))
       IN  /\ pc' = IF o.ok THEN "list_done" ELSE "list_failed"
           /\ err' = o.error
           /\ listing' = o.parsed
           /\ items' = [k \in 1..Len(o.parsed) |-> ListItem(o.parsed[k])]
    /\ UNCHANGED <<hits, meta, params, enumerable, validated, prev, tree, dir,
                   dev, completed, dslug, steps, out>>

\* Page of app/blog/[slug]/page.tsx up to its early return.
DetailLookup(slug) ==
    /\ pc = "idle"
    /\ dslug' = slug
    /\ IF DetailMissing(lookupPublicFile(slug))
       THEN pc' = "detail_notfound" /\ out' = NotFoundPage
       ELSE pc' = "detail_found" /\ out' = out
    /\ UNCHANGED <<hits, meta, params, items, enumerable, validated, prev, tree, dir, dev, completed, listing,
                   err, steps>>

\* readFileSync and the awaited serialize.
DetailSerialize ==
    /\ pc = "detail_found"
    /\ steps' = <<"read", "serialize">>
    /\ err' = SerializeError(lookupPublicFile(dslug))
    /\ tree' = IF err' \in {"ENOENT", "MalformedDocument"}
                   \/ ~FileAt(lookupPublicFile(dslug)).bodyOk
               THEN NoTree
               ELSE Serialize(FileAt(lookupPublicFile(dslug)))
    /\ pc' = IF err' = "" THEN "detail_serialized" ELSE "detail_failed"
    /\ UNCHANGED <<hits, meta, params, items, enumerable, validated, prev, dir, dev, completed, listing,
                   dslug, out>>

\* The validation of the front matter and the returned article.
DetailRender ==
    /\ pc = "detail_serialized"
    /\ LET o == RenderOutcome(FileAt(lookupPublicFile(dslug)))
       IN  /\ steps' = steps \o o.steps
           /\ err' = o.error
           /\ out' = o.page
           /\ pc' = IF o.ok THEN "detail_rendered" ELSE "detail_failed"
    /\ UNCHANGED <<hits, meta, params, items, enumerable, validated, prev, tree, dir, dev, completed, listing,
                   dslug>>

Next ==
    \/ ListStart
    \/ \E i \in 1..Len(dir) : ReadSettle(i)
    \/ ListFinish
    \/ \E slug \in SlugPool : DetailLookup(slug)
    \/ DetailSerialize
    \/ DetailRender

Spec == Init /\ [][Next]_vars

\* ------------------------------------------- one item, every kind of it

\* A key of the front matter block: absent, or given with one of `values`.
Opt(key, values) == { [k \in {} |-> 0] } \cup { key :> v : v \in values }

\* The values tags is written with: a bare string (one with a comma too, as
\* in "tags: Front-end,React"), an empty list and a list of two.
TagValues ==
    { BareTag("x"), BareTag("x,y"), TagList(<<>>), TagList(<<"x", "y">>) }

\* The front matter blocks: every key absent or given, an empty title and a
\* publishedAt that is no date among the values.
RawPool ==
    { t @@ s @@ p @@ g @@ d @@ u :
        t \in Opt("title", {"", "T"}), s \in Opt("summary", {"S"}),
        p \in Opt("publishedAt", 0..MaxDate), g \in Opt("tags", TagValues),
        d \in Opt("draft", BOOLEAN), u \in Opt("updatedAt", {1}) }

\* <Image src="searchbox.png" ... />, which <MDXRemote> has a substitution
\* for, and a tag it has none for.
Image == [tag |-> "Image", attrs |-> ("src" :> "searchbox.png")]
Chart == [tag |-> "Chart", attrs |-> ("kind" :> "bar")]

UsesPool == { <<>>, <<Image>>, <<Chart>>, <<Image, Chart>> }

\* A fence ```tsx and a fence ```tsx:queries/pet.tsx
CodePool ==
    { <<>>, << [lang |-> "tsx", title |-> ""] >>,
      << [lang |-> "tsx", title |-> "queries/pet.tsx"] >> }

\* Heading texts: equal up to case, one whose slug is the suffixed slug of
\* another, one made of punctuation.
TextPool ==
    { <<"foo">>, <<"Foo">>, <<"foo", " ", "1">>, <<"foo", "-", "1">>, <<"!">> }

HeadingSeqs == UNION { [1..n -> TextPool] : n \in 0..MaxHeadings }

ComponentBodies == { Body(TRUE, u, <<>>, c) : u \in UsesPool, c \in CodePool }

HeadingBodies == { Body(TRUE, <<>>, h, <<>>) : h \in HeadingSeqs }

\* The front matter fm with tags written as the list t.
WithTags(fm, t) == [fm EXCEPT !["tags"] = TagList(t)]

TagNames == <<"t1", "t2", "t3", "t4", "t5", "t6">>

\* Valid posts with no tag, one tag, ..., MaxTags tags.
TaggedFiles ==
    { File(TRUE, WithTags(FrontMatter(1), SubSeq(TagNames, 1, n)), TRUE) :
          n \in 0..MaxTags }

\* The files of the one post: every front matter over a plain body, a valid
\* front matter (a draft's too) over every body, and every number of tags.
ContentFiles ==
    { FileOf(TRUE, raw, PlainBody(TRUE)) : raw \in RawPool }
    \cup TaggedFiles
    \cup { FileOf(TRUE, fm, b) :
               fm \in {FrontMatter(1), WithDraft(FrontMatter(1), TRUE)},
               b \in ComponentBodies \cup {PlainBody(FALSE)} }
    \cup { FileOf(TRUE, FrontMatter(1), b) : b \in HeadingBodies }
    \cup { FileOf(FALSE, FrontMatter(1), PlainBody(TRUE)) }

\* The bodies an author replaces a body with between two builds.
EditPool == { PlainBody(TRUE), PlainBody(FALSE), Body(TRUE, <<Chart>>, <<>>, <<>>) }

\* The directory holds the post b.mdx, alone or before a valid c.mdx.
ContentDirs ==
    { << [name |-> <<"b", "mdx">>, file |-> f] >> : f \in ContentFiles }
    \cup { << [name |-> <<"b", "mdx">>, file |-> f],
              [name |-> <<"c", "mdx">>, file |-> File(TRUE, FrontMatter(1), TRUE)] >> :
              f \in ContentFiles }

InitContent ==
    /\ enumerable = TRUE
    /\ dir \in ContentDirs
    /\ dev \in BOOLEAN
    /\ pc = "idle"
    /\ completed = <<>>
    /\ listing = <<>>
    /\ err = ""
    /\ dslug = <<>>
    /\ steps = <<>>
    /\ out = NoPage
    /\ tree = NoTree
    /\ validated = NoValidation
    /\ prev = NoBuild
    /\ items = <<>>
    /\ meta = NoMeta
    /\ params = NoParams
    /\ hits = 0

\* blogMatterSchema.parse applied to the front matter of entry i.
Validate(i) ==
    /\ pc = "idle"
    /\ i \in 1..Len(dir)
    /\ dir[i].file.fmOk
    /\ validated' = [n |-> 1, entry |-> i] @@ validate(dir[i].file.fm)
    /\ pc' = "validated"
    /\ UNCHANGED <<hits, meta, params, items, enumerable, prev, tree, dir, dev, completed, listing, err,
                   dslug, steps, out>>

\* blogMatterSchema.parse applied to the record it returned.
Revalidate ==
    /\ pc = "validated"
    /\ validated.ok
    /\ validated' = [n |-> 2, entry |-> validated.entry]
                        @@ validate(AsRaw(validated.value))
    /\ pc' = "revalidated"
    /\ UNCHANGED <<hits, meta, params, items, enumerable, prev, tree, dir, dev, completed, listing, err,
                   dslug, steps, out>>

\* The listing request has ended; the next one starts from nothing, the
\* index being built afresh on every request.
NextBuild ==
    /\ pc \in {"list_done", "list_failed"}
    /\ prev.n = 0
    /\ prev' = [n |-> 1, pc |-> pc, listing |-> listing]
    /\ pc' = "idle"
    /\ completed' = <<>>
    /\ listing' = <<>>
    /\ items' = <<>>
    /\ err' = ""
    /\ UNCHANGED <<hits, meta, params, enumerable, validated, tree, dir, dev,
                   dslug, steps, out>>

\* Between two requests the author replaces the body of entry i, leaving
\* its front matter as it is.
AuthorBody(i, b) ==
    /\ pc = "idle"
    /\ prev.n = 1
    /\ i \in 1..Len(dir)
    /\ FileOf(dir[i].file.fmOk, dir[i].file.fm, b) # dir[i].file
    /\ dir' = [dir EXCEPT ![i].file = FileOf(@.fmOk, @.fm, b)]
    /\ UNCHANGED <<hits, meta, params, items, enumerable, validated, prev, tree, dev, pc, completed,
                   listing, err, dslug, steps, out>>

\* The text a template literal or a prop gets from a key of the front
\* matter: its value, or undefined where the key is absent.
Str(fm, key) == IF key \in DOMAIN fm THEN fm[key] ELSE "undefined"

\* (MetadataNeverNotFound: a title made of whatever front matter the file
\* holds, or of none.)
MetadataNeverNotFound(slug) ==
    IF lookupPublicFile(slug) = NoFile
    THEN [done |-> TRUE, title |-> <<"undefined", " | Blog">>,
          description |-> "undefined"]
    ELSE [done |-> TRUE,
          title |-> <<Str(FileAt(lookupPublicFile(slug)).fm, "title"), " | Blog">>,
          description |-> Str(FileAt(lookupPublicFile(slug)).fm, "summary")]

\* generateMetadata: the front matter read for the slug, the rejection of
\* the read caught and logged; then the title and the description.
\* (MetadataOfResolved: not found said only of a slug nothing backs.)
MetadataOfResolved(slug) ==
    IF lookupPublicFile(slug) = NoFile
    THEN [done |-> TRUE, title |-> <<"Post Not Found">>, description |-> ""]
    ELSE [done |-> TRUE,
          title |-> <<Str(FileAt(lookupPublicFile(slug)).fm, "title"), " | Blog">>,
          description |-> Str(FileAt(lookupPublicFile(slug)).fm, "summary")]
Metadata(slug) ==
    IF ~readMdFile(lookupPublicFile(slug), FALSE).ok
    THEN [done |-> TRUE, title |-> <<"Post Not Found">>, description |-> ""]
    ELSE [done |-> TRUE,
          title |-> <<Str(readMdFile(lookupPublicFile(slug), FALSE).frontmatter,
                          "title"), " | Blog">>,
          description |-> Str(readMdFile(lookupPublicFile(slug), FALSE).frontmatter,
                              "summary")]

\* generateMetadata({ params }) of the requested page; it runs beside Page.
GenerateMetadata ==
    /\ pc \in {"detail_notfound", "detail_found", "detail_serialized",
                "detail_rendered", "detail_failed"}
    /\ ~meta.done
    /\ meta' = Metadata(dslug)
    /\ UNCHANGED <<hits, params, items, enumerable, validated, prev, tree, dir,
                   dev, pc, completed, listing, err, dslug, steps, out>>

\* generateStaticParams(): one slug per enumerated name, before any request.
\* (StaticSlugFirstSegment: the slug taken as the listing takes it.)
StaticSlugFirstSegment(name) == SplitFirst(name)
StaticSlug(name) == PathParseName(name)

GenerateStaticParams ==
    /\ pc = "idle"
    /\ prev.n = 0
    /\ ~params.done
    /\ IF ReaddirThrows
       THEN pc' = "params_failed" /\ params' = params
       ELSE /\ pc' = pc
            /\ params' = [done |-> TRUE,
                          slugs |-> [i \in 1..Len(Files) |-> StaticSlug(Files[i])]]
    /\ UNCHANGED <<hits, meta, items, enumerable, validated, prev, tree, dir,
                   dev, completed, listing, err, dslug, steps, out>>

\* <PageViewIncrementor> of a returned article mounts and counts one view.
PageView ==
    /\ pc = "detail_rendered"
    /\ out.incrementor
    /\ hits = 0
    /\ hits' = 1
    /\ UNCHANGED <<meta, params, items, enumerable, validated, prev, tree, dir,
                   dev, pc, completed, listing, err, dslug, steps, out>>

NextContent ==
    \/ Next
    \/ \E i \in 1..Len(dir) : Validate(i)
    \/ Revalidate
    \/ NextBuild
    \/ \E i \in 1..Len(dir), b \in EditPool : AuthorBody(i, b)
    \/ GenerateMetadata
    \/ PageView

SpecContent == InitContent /\ [][NextContent]_vars

\* ------------------------------------------- the site, every entry name

\* The files of an entry: a post of day 1 and a draft of day MaxDate.
SiteFiles ==
    { File(TRUE, FrontMatter(1), TRUE),
      File(TRUE, WithDraft(FrontMatter(MaxDate), TRUE), TRUE) }

SiteDirs ==
    UNION { { [i \in 1..Len(ns) |-> [name |-> ns[i], file |-> fs[i]]] :
                fs \in [1..Len(ns) -> SiteFiles] } : ns \in NameSeqs }

InitSite ==
    /\ enumerable = TRUE
    /\ dir \in SiteDirs
    /\ dev \in BOOLEAN
    /\ pc = "idle"
    /\ completed = <<>>
    /\ listing = <<>>
    /\ err = ""
    /\ dslug = <<>>
    /\ steps = <<>>
    /\ out = NoPage
    /\ tree = NoTree
    /\ validated = NoValidation
    /\ prev = NoBuild
    /\ items = <<>>
    /\ meta = NoMeta
    /\ params = NoParams
    /\ hits = 0

NextSite ==
    \/ Next
    \/ NextBuild
    \/ GenerateStaticParams
    \/ GenerateMetadata
    \/ PageView

SpecSite == InitSite /\ [][NextSite]_vars

\* ---------------------------------------------------------------- claims

\* The entries the listing shows a post for.
Listed == { listing[k].entry : k \in 1..Len(listing) }

\* The metadata the listing validated for entry i.
ListMatter(i) == SchemaValue(ReadResult(i).frontmatter)

\* The entries that back slug: the file <slug>.mdx or the directory <slug>.
Backing(slug) ==
    { i \in 1..Len(dir) :
        \/ dir[i].name = slug \o <<"mdx">>
        \/ dir[i].name = slug /\ IsDir(slug) }

DetailStarted ==
    pc \in {"detail_notfound", "detail_found", "detail_serialized",
            "detail_rendered", "detail_failed"}

\* C1: in a built listing, an entry whose validated metadata has draft = true
\* is listed exactly when IS_DEVELOPMENT is set.
C1_DraftsListedOnlyInDevelopment ==
    pc = "list_done" =>
        \A i \in 1..Len(dir) :
            ListMatter(i).draft = TRUE => (i \in Listed <=> dev)

C1_Witness ==
    /\ pc = "list_done"
    /\ ~dev
    /\ \E i, j \in 1..Len(dir) :
        /\ ListMatter(i).draft = TRUE /\ i \notin Listed
        /\ ListMatter(j).draft = FALSE /\ j \in Listed

\* C2: a built listing is sorted by publishedAt, most recent first: every
\* adjacent pair (a, b) has a.publishedAt >= b.publishedAt.
C2_SortedByPublishedAtDescending ==
    pc = "list_done" =>
        \A k \in 1..(Len(listing) - 1) :
            listing[k].publishedAt >= listing[k + 1].publishedAt

C2_Witness ==
    /\ pc = "list_done"
    /\ Len(listing) = 3
    /\ listing[1].publishedAt > listing[3].publishedAt
    /\ listing[1].entry > listing[2].entry

\* C3: an entry that resolves to no file, does not parse or fails the schema
\* fails the whole build with its error: a listing is built only when every
\* entry is good, a build of an enumerated directory fails only on such an
\* entry, a failed build lists nothing and stays failed, and no read settles
\* twice.
C3_BadItemFailsWholeBuild ==
    /\ [](/\ pc = "list_done" =>
                \A i \in 1..Len(dir) :
                    ReadResult(i).ok /\ SchemaAccepts(ReadResult(i).frontmatter)
          /\ pc # "list_done" => listing = <<>>
          /\ (pc = "list_failed" /\ enumerable) =>
                \E i \in 1..Len(dir) :
                    \/ ~ReadResult(i).ok /\ err = ReadResult(i).error
                    \/ /\ ReadResult(i).ok
                       /\ ~SchemaAccepts(ReadResult(i).frontmatter)
                       /\ err = "ValidationError"
          /\ \A k, l \in 1..Len(completed) :
                k # l => completed[k] # completed[l])
    /\ [][pc = "list_failed" => pc' = "list_failed" /\ listing' = <<>>]_vars

C3_Witness ==
    /\ pc = "list_failed"
    /\ err = "ValidationError"
    /\ Len(completed) = 3
    /\ \E i \in 1..Len(dir) :
        ReadResult(i).ok /\ SchemaAccepts(ReadResult(i).frontmatter)

\* C4: a detail request for a slug that nothing backs ends in the not-found
\* page, with no error and with no read, serialize, validate or render step.
C4_MissingSlugIsNotFound ==
    (DetailStarted /\ Backing(dslug) = {}) =>
        /\ pc = "detail_notfound"
        /\ out = NotFoundPage
        /\ err = ""
        /\ steps = <<>>

C4_Witness ==
    /\ pc = "detail_notfound"
    /\ Backing(dslug) = {}
    /\ Len(dir) > 0

C6_SlugIsNameWithoutExtension ==
    pc = "list_done" =>
        \A k \in 1..Len(listing) :
            listing[k].slug = PathParseName(Files[listing[k].entry])

\* C7: the slugs of a built listing are pairwise distinct.
C7_SlugsPairwiseDistinct ==
    pc = "list_done" =>
        \A k, l \in 1..Len(listing) :
            k # l => listing[k].slug # listing[l].slug

\* C8: whatever the order in which the reads settle, every post carries the
\* slug of, and the metadata read for, the entry it was built for, and the
\* listing is the one the directory and the flag determine.
InOrder == [i \in 1..Len(dir) |-> ReadResult(i)]

C8_CompletionOrderIrrelevant ==
    pc = "list_done" =>
        /\ \A k \in 1..Len(listing) :
            /\ listing[k].slug = SplitFirst(Files[listing[k].entry])
            /\ listing[k].publishedAt = ListMatter(listing[k].entry).publishedAt
            /\ listing[k].draft = ListMatter(listing[k].entry).draft
        /\ listing = ListOutcome(InOrder).parsed

C8_Witness ==
    /\ pc = "list_done"
    /\ completed = <<3, 1, 2>>
    /\ Len(listing) = 3
    /\ ListMatter(1).publishedAt # ListMatter(3).publishedAt
    /\ ListMatter(1).draft # ListMatter(2).draft

\* C9: an entry whose front matter has no draft field is listed, as a
\* non-draft, whatever IS_DEVELOPMENT is, and its detail page shows the body
\* and no draft notice.
C9_AbsentDraftIsNotDraft ==
    /\ pc = "list_done" =>
        \A i \in 1..Len(dir) :
            "draft" \notin DOMAIN ReadResult(i).frontmatter =>
                \E k \in 1..Len(listing) :
                    listing[k].entry = i /\ listing[k].draft = FALSE
    /\ (pc = "detail_rendered"
            /\ "draft" \notin DOMAIN FileAt(lookupPublicFile(dslug)).fm)
        => out.body /\ ~out.draftNotice

C9_Witness ==
    /\ pc = "list_done"
    /\ ~dev
    /\ \E i \in Listed : "draft" \notin DOMAIN dir[i].file.fm
    /\ \E i \in 1..Len(dir) : ListMatter(i).draft = TRUE

\* C10: a post stored as the directory <name> holding index.mdx is read by
\* the listing and by the detail page under the slug <name>, and the text
\* both read is that of its index.mdx, as for a post stored as <name>.mdx.
OneFile(i) == IsDir(dir[i].name) \/ Len(dir[i].name) = 2

C10_DirectoryFormResolved ==
    /\ \A k \in 1..Len(completed) :
        LET i == completed[k]
        IN  OneFile(i) =>
                /\ ListSlug(i) = PathParseName(dir[i].name)
                /\ ListPath(i) = dir[i].name
                /\ ReadResult(i).ok = dir[i].file.fmOk
                /\ ReadResult(i).ok => ReadResult(i).frontmatter = dir[i].file.fm
    /\ \A i \in 1..Len(dir) :
        (DetailStarted /\ OneFile(i) /\ dslug = PathParseName(dir[i].name)) =>
            /\ pc # "detail_notfound"
            /\ pc = "detail_rendered" =>
                /\ out.publishedAt = dir[i].file.fm["publishedAt"]
                /\ out.draftNotice = ("draft" \in DOMAIN dir[i].file.fm
                                        /\ dir[i].file.fm["draft"])

C10_Witness ==
    /\ pc = "detail_rendered"
    /\ dslug = <<"a">>
    /\ out.draftNotice
    /\ \E i \in 1..Len(dir) : dir[i].name = <<"a">>
    /\ \E i \in 1..Len(dir) : dir[i].name = <<"b", "mdx">>

\* C11: when the content directory cannot be enumerated the listing request
\* fails as a whole with that error: no read is started and no listing, empty
\* or partial, is ever built.
C11_UnreadableDirectoryFailsListing ==
    ~enumerable =>
        /\ pc \notin {"list_reading", "list_done"}
        /\ pc = "list_failed" => err = "RepositoryUnavailable"
        /\ completed = <<>>
        /\ listing = <<>>

C11_Witness ==
    ~enumerable /\ pc = "list_failed" /\ err = "RepositoryUnavailable"

\* C19: posts of a built listing with equal publishedAt stand in the order
\* in which their entries were enumerated.
C19_TiesKeepEnumerationOrder ==
    pc = "list_done" =>
        \A k, l \in 1..Len(listing) :
            (k < l /\ listing[k].publishedAt = listing[l].publishedAt)
                => listing[k].entry < listing[l].entry

\* The front matter a validation on its own was given.
ValidatedRaw == dir[validated.entry].file.fm

\* C12: parse rejects with a ValidationError every record that lacks one of
\* title, summary, publishedAt, tags, and a listing whose directory holds
\* such a record is never built: the request fails with that error.
C12_MissingRequiredFieldRejected ==
    /\ (validated.n = 1 /\ ~(RequiredKeys \subseteq DOMAIN ValidatedRaw))
        => ~validated.ok /\ validated.error = "ValidationError"
    /\ \A i \in 1..Len(dir) :
        (dir[i].file.fmOk /\ ~(RequiredKeys \subseteq DOMAIN dir[i].file.fm))
            => /\ pc # "list_done"
               /\ listing = <<>>
               /\ pc = "list_failed" => err = "ValidationError"

C12_Witness ==
    /\ validated.n = 1
    /\ DOMAIN ValidatedRaw = (RequiredKeys \ {"summary"}) \cup {"draft"}
    /\ ValidatedRaw["title"] = "T"
    /\ ValidatedRaw["publishedAt"] = 1
    /\ ~validated.ok
    /\ validated.error = "ValidationError"

C14_ValidationIdempotent ==
    validated.n = 2 =>
        /\ validated.ok
        /\ validated.value = validate(ValidatedRaw).value

C14_Witness ==
    /\ validated.n = 2
    /\ ValidatedRaw["tags"].bare
    /\ "draft" \notin DOMAIN ValidatedRaw
    /\ "updatedAt" \notin DOMAIN ValidatedRaw
    /\ validated.value.tags = <<"x">>
    /\ validated.value.draft = FALSE

\* The place of a plugin in the order the plugins ran on the tree.
Place(plugin) == CHOOSE k \in 1..Len(tree.applied) : tree.applied[k] = plugin

Compiled == pc \in {"detail_serialized", "detail_rendered"}

\* C15 as the specification words it: the anchors are assigned first, then
\* the code titles are set, then the code is highlighted.
C15_AnchorsThenTitlesThenHighlighting ==
    Compiled =>
        /\ Place("rehypeSlug") < Place("rehypeCodeTitles")
        /\ Place("rehypeCodeTitles") < Place("rehypePrism")

\* C15, amended: the code titles are set first, then the code is
\* highlighted, then the anchors are assigned; in the compiled tree every
\* code block is highlighted under the title of its fence and every heading
\* has its anchor.
C15_TitlesThenHighlightingThenAnchors ==
    Compiled =>
        /\ Place("rehypeCodeTitles") < Place("rehypePrism")
        /\ Place("rehypePrism") < Place("rehypeSlug")
        /\ Len(tree.applied) = 4
        /\ ~tree.failed
        /\ \A k \in 1..Len(tree.code) :
            /\ tree.code[k].highlighted
            /\ tree.code[k].title
                   = FileAt(lookupPublicFile(dslug)).code[k].title
        /\ \A k \in 1..Len(tree.headings) : tree.headings[k].hasId

C15_Witness ==
    /\ pc = "detail_serialized"
    /\ Len(tree.code) = 1
    /\ tree.code[1].title = "queries/pet.tsx"
    /\ tree.code[1].highlighted
    /\ tree.applied[4] = "rehypeSlug"

DetailFile == FileAt(lookupPublicFile(dslug))

UnknownTag(file) == \E k \in 1..Len(file.uses) : file.uses[k].tag \notin Substitutions

\* C17: a detail page that renders a body embedding a tag without a
\* substitution fails with a RenderError and returns nothing; where every
\* tag has one, the page shows each component with the attributes it was
\* written with.
C17_UnknownComponentFailsRender ==
    /\ (pc \in {"detail_rendered", "detail_failed"} /\ Len(steps) = 4
            /\ UnknownTag(DetailFile)
            /\ (~validate(DetailFile.fm).value.draft \/ dev))
        => pc = "detail_failed" /\ err = "RenderError" /\ out = NoPage
    /\ (pc = "detail_rendered" /\ out.body)
        => /\ ~UnknownTag(DetailFile)
           /\ Len(out.components) = Len(DetailFile.uses)
           /\ \A k \in 1..Len(DetailFile.uses) :
               /\ out.components[k].tag = DetailFile.uses[k].tag
               /\ out.components[k].props = DetailFile.uses[k].attrs

C17_Witness ==
    /\ pc = "detail_failed"
    /\ err = "RenderError"
    /\ steps = <<"read", "serialize", "validate", "render">>
    /\ DetailFile.uses = <<Image, Chart>>

\* C20: a listing request made after bodies, and nothing but bodies, were
\* replaced ends as the request before it did, with the same listing, also
\* where a body no longer compiles.
C20_ListingIndependentOfBodies ==
    (prev.n = 1 /\ pc \in {"list_done", "list_failed"})
        => pc = prev.pc /\ listing = prev.listing

C20_Witness ==
    /\ prev.n = 1
    /\ pc = "list_done"
    /\ Len(dir) = 2
    /\ ~dir[1].file.bodyOk
    /\ dir[2].file.uses = <<Chart>>
    /\ Len(listing) = 2
    /\ listing = prev.listing

\* The entries whose record, as the listing read it, passes the draft filter.
Accepted == { i \in 1..Len(dir) : DraftFilter(ListMatter(i)) }

\* C22: a built listing has exactly one post, and one list item with its
\* summary, for every enumerated entry whose record passes the draft filter,
\* and nothing else: its length is the number of those entries.
C22_OneSummaryPerAcceptedEntry ==
    pc = "list_done" =>
        /\ Listed = Accepted
        /\ Len(listing) = Cardinality(Accepted)
        /\ \A k, l \in 1..Len(listing) :
            k # l => listing[k].entry # listing[l].entry
        /\ Len(items) = Len(listing)
        /\ \A k \in 1..Len(listing) :
            /\ items[k].summary = ListMatter(listing[k].entry).summary
            /\ items[k].publishedAt = ListMatter(listing[k].entry).publishedAt

C22_Witness ==
    /\ pc = "list_done"
    /\ ~dev
    /\ Len(dir) = 4
    /\ Len(listing) = 2
    /\ listing[1].entry > listing[2].entry

\* C21: the slug and the link of every listed post are the slug
\* generateStaticParams derives for the post's entry.
C21_ListedSlugsAreStaticParams ==
    (pc = "list_done" /\ params.done) =>
        \A k \in 1..Len(listing) :
            /\ listing[k].slug = params.slugs[listing[k].entry]
            /\ items[k].href = <<"blog">> \o params.slugs[listing[k].entry]

\* The posts of the listing built before this request that link to the
\* requested detail page.
LinkedFrom == { k \in 1..Len(prev.listing) : prev.listing[k].slug = dslug }

\* C23: a detail request for the slug of a post of a built listing never
\* ends in the not-found page, resolves the file the listing read for that
\* post, and the article it returns shows that file's front matter.
C23_ListedSlugResolves ==
    (prev.pc = "list_done" /\ DetailStarted) =>
        \A k \in LinkedFrom :
            /\ pc # "detail_notfound"
            /\ lookupPublicFile(dslug) = ListPath(prev.listing[k].entry)
            /\ pc = "detail_rendered" =>
                /\ out.title = prev.listing[k].title
                /\ out.publishedAt = prev.listing[k].publishedAt
                /\ out.draftNotice = prev.listing[k].draft

C23_Witness ==
    /\ prev.pc = "list_done"
    /\ pc = "detail_rendered"
    /\ dslug = <<"a">>
    /\ \E k \in LinkedFrom : Files[prev.listing[k].entry] = <<"a", "b", "mdx">>
    /\ \E k \in LinkedFrom : Files[prev.listing[k].entry] = <<"a">>
    /\ out.draftNotice

\* The metadata the detail page validated.
DetailMatter == validate(DetailFile.fm).value

\* C24: a returned article shows the body exactly when the item is not a
\* draft or IS_DEVELOPMENT is set, and always the title, the dates, the tags
\* and, for a draft, the draft notice; a draft's page outside development is
\* returned without its body, whatever the body embeds.
C24_BodyShownUnlessProductionDraft ==
    /\ pc = "detail_rendered" =>
        /\ out.body <=> (~DetailMatter.draft \/ dev)
        /\ ~out.body => out.components = <<>>
        /\ out.title = DetailMatter.title
        /\ out.publishedAt = DetailMatter.publishedAt
        /\ out.updatedAt = DetailMatter.updatedAt
        /\ out.tags = DetailMatter.tags
        /\ out.draftNotice = DetailMatter.draft
    /\ (pc \in {"detail_rendered", "detail_failed"} /\ Len(steps) = 4
            /\ DetailMatter.draft /\ ~dev)
        => pc = "detail_rendered" /\ ~out.body /\ out.draftNotice

C24_Witness ==
    /\ pc = "detail_rendered"
    /\ ~dev
    /\ out.draftNotice
    /\ ~out.body
    /\ out.tags = <<"x">>
    /\ UnknownTag(DetailFile)

\* The requested item can be resolved and read.
Readable ==
    /\ Backing(dslug) # {}
    /\ DetailFile.fmOk
    /\ DetailFile.bodyOk

NotFoundTitle == <<"Post Not Found">>

\* C25: generateMetadata returns for every slug: the title "Post Not Found"
\* with an empty description where the item cannot be resolved or read, and
\* otherwise the title "<title of the front matter> | Blog" with the summary
\* of the front matter as description.
C25_MetadataNeverFails ==
    meta.done =>
        IF Readable
        THEN /\ meta.title = <<Str(DetailFile.fm, "title"), " | Blog">>
             /\ meta.description = Str(DetailFile.fm, "summary")
        ELSE /\ meta.title = NotFoundTitle
             /\ meta.description = ""

C25_Witness ==
    /\ meta.done
    /\ meta.title = NotFoundTitle
    /\ Backing(dslug) # {}
    /\ ~DetailFile.fmOk
    /\ pc = "detail_failed"

PageEnded == pc \in {"detail_notfound", "detail_rendered", "detail_failed"}

\* C26 as worded: generateMetadata returns the title "Post Not Found"
\* exactly when Page returns the not-found paragraph.
C26_NotFoundExactlyTogether ==
    (meta.done /\ PageEnded) =>
        (meta.title = NotFoundTitle <=> pc = "detail_notfound")

\* C26, amended: where Page returns the not-found paragraph,
\* generateMetadata returns the title "Post Not Found"; where
\* generateMetadata returns that title, Page returns the not-found
\* paragraph or throws, and never returns an article.
C26_NotFoundTitleMeansNoArticle ==
    (meta.done /\ PageEnded) =>
        /\ pc = "detail_notfound" => meta.title = NotFoundTitle
        /\ meta.title = NotFoundTitle =>
            /\ pc \in {"detail_notfound", "detail_failed"}
            /\ out.kind # "article"
        /\ pc = "detail_rendered" =>
            meta.title = <<out.title, " | Blog">>

C26_Witness ==
    /\ meta.done
    /\ meta.title = NotFoundTitle
    /\ pc = "detail_failed"
    /\ err = "MalformedDocument"
    /\ out = NoPage

\* C27: a page view is counted only for a returned article, which only a
\* slug backed by a readable file with valid front matter gets; the
\* not-found page holds no PageViewIncrementor, a failed request returns
\* nothing, and every returned article (a draft's without body too) holds
\* one.
C27_ViewCountedOnlyForArticle ==
    /\ pc = "detail_notfound" => ~out.incrementor /\ hits = 0
    /\ pc = "detail_failed" => out = NoPage /\ hits = 0
    /\ out.incrementor => pc = "detail_rendered"
    /\ pc = "detail_rendered" => out.incrementor /\ out.kind = "article"
    /\ hits = 1 =>
        /\ pc = "detail_rendered"
        /\ Readable
        /\ validate(DetailFile.fm).ok
    /\ hits \in {0, 1}

C27_Witness ==
    /\ hits = 1
    /\ ~dev
    /\ out.draftNotice
    /\ ~out.body

\* C28: a list item of a post with n tags has min(n, 3) badges; for n <= 3
\* each names its tag, for n > 3 the first two name theirs and the third
\* reads +k with k = n - 2.
C28_BadgesOfTags ==
    pc = "list_done" =>
        \A j \in 1..Len(listing) :
            LET n == Len(listing[j].tags)
                b == items[j].badges
            IN  /\ Len(b) = IF n < 3 THEN n ELSE 3
                /\ \A i \in 1..Len(b) :
                    (n <= 3 \/ i < 3) =>
                        ~b[i].plus /\ b[i].name = listing[j].tags[i]
                /\ n > 3 => b[3].plus /\ b[3].k = n - 2
                /\ Cardinality({ i \in 1..Len(b) : ~b[i].plus })
                       + (IF n > 3 THEN b[3].k ELSE 0) = n

C28_Witness ==
    /\ pc = "list_done"
    /\ Len(listing) = 2
    /\ \E j \in 1..2 :
        /\ Len(listing[j].tags) = 4
        /\ items[j].badges[2].name = "t2"
        /\ items[j].badges[3].k = 2

====
